---------------------------- MODULE Spec2Model ----------------------------
(***************************************************************************)
(* QubitQuest (qubitquest_app.py): a Streamlit tutorial script.  Every     *)
(* widget interaction re-executes the script top to bottom; session state  *)
(* (started, editor_code) and widget values survive between executions.    *)
(*                                                                         *)
(* Text is a sequence of symbols: NL (a line break), SP (one space) and    *)
(* opaque chunks (a run of characters that starts with a non-blank and     *)
(* holds no line break).                                                   *)
(***************************************************************************)
EXTENDS Naturals, Sequences, FiniteSets, TLC

VARIABLES
    started,       \* st.session_state.started
    lesson,        \* value of the "Select a gate" selectbox
    default_code,  \* inspect.getdoc(meta["builder"]) of this script execution
    editor_code,   \* st.session_state.editor_code
    widget_value,  \* `value` the text_area on screen was created with
    user_code,     \* text currently held (and returned) by the text_area
    backend,       \* value of the "Run on:" radio
    shots,         \* value of the "Shots:" slider
    pc,            \* position inside the "Run Circuit" handler
    exec_env,      \* names bound in the namespace handed to exec
    circuit,       \* value returned by exec_env["build"]()
    device,        \* device object chosen at line 174
    exc,           \* exception in flight inside the try block
    log,           \* calls and sink writes of the current script execution
    outcome,       \* how the last run action ended
    exercised,     \* capabilities the submitted text has used in this run
    last,          \* the learner's last interaction
    pre            \* session state when the run button was pressed

vars == <<started, lesson, default_code, editor_code, widget_value, user_code,
          backend, shots, pc, exec_env, circuit, device, exc, log, outcome,
          exercised, last, pre>>

-----------------------------------------------------------------------------
(* Text primitives (str.split, str.splitlines, str.join, str.lstrip)       *)

NL == "\n"
SP == " "
Empty == << >>

Last(s) == s[Len(s)]
Front(s) == SubSeq(s, 1, Len(s) - 1)
DropFirst(s, n) == SubSeq(s, n + 1, Len(s))

RECURSIVE Split(_)
\* s.split('\n'): always at least one piece
Split(s) ==
    IF \A i \in DOMAIN s : s[i] # NL
    THEN << s >>
    ELSE LET i == CHOOSE k \in DOMAIN s :
                      s[k] = NL /\ \A j \in 1..(k - 1) : s[j] # NL
         IN  << SubSeq(s, 1, i - 1) >> \o Split(DropFirst(s, i))

\* s.splitlines(): no piece for the empty text nor after a final line break
SplitLines(s) ==
    IF s = Empty THEN << >>
    ELSE LET parts == Split(s)
         IN  IF Last(parts) = Empty THEN Front(parts) ELSE parts

RECURSIVE Join(_)
\* "\n".join(ls)
Join(ls) ==
    IF ls = << >> THEN Empty
    ELSE IF Len(ls) = 1 THEN ls[1]
    ELSE ls[1] \o << NL >> \o Join(Tail(ls))

RECURSIVE LStrip(_)
\* line.lstrip(' ')
LStrip(line) ==
    IF line # Empty /\ Head(line) = SP THEN LStrip(Tail(line)) ELSE line

RECURSIVE PopBlankTail(_)
PopBlankTail(ls) ==
    IF ls # << >> /\ Last(ls) = Empty THEN PopBlankTail(Front(ls)) ELSE ls

RECURSIVE PopBlankHead(_)
PopBlankHead(ls) ==
    IF ls # << >> /\ Head(ls) = Empty THEN PopBlankHead(Tail(ls)) ELSE ls

\* inspect.cleandoc, which inspect.getdoc applies to the builder's __doc__
cleandoc(doc) ==
    LET lines   == Split(doc)
        indents == { Len(lines[i]) - Len(LStrip(lines[i])) :
                       i \in { k \in 2..Len(lines) : LStrip(lines[k]) # Empty } }
        cut(i)  == IF i = 1 THEN LStrip(lines[1])
                   ELSE IF indents = {} THEN lines[i]
                   ELSE LET margin == CHOOSE m \in indents :
                                          \A n \in indents : m <= n
                        IN  DropFirst(lines[i],
                                      IF margin < Len(lines[i]) THEN margin
                                      ELSE Len(lines[i]))
    IN  Join(PopBlankHead(PopBlankTail([i \in 1..Len(lines) |-> cut(i)])))

getdoc(doc) == cleandoc(doc)

-----------------------------------------------------------------------------
(* Lesson builders and the LESSONS dictionary                              *)

Spaces(n) == [i \in 1..n |-> SP]
Ln(n, chunk) == Spaces(n) \o << chunk >>

\* __doc__ of each builder, as written between its triple quotes
build_measure_doc ==
    << "def build():", NL >> \o Ln(4, "circuit = Circuit()") \o << NL >>
    \o Ln(4, "circuit.measure(0)") \o << NL >>
    \o Ln(4, "return circuit") \o << NL >> \o Spaces(4)

build_hadamard_doc ==
    << "def build():", NL >> \o Ln(4, "circuit = Circuit()") \o << NL >>
    \o Ln(4, "circuit.h(0)") \o << NL >>
    \o Ln(4, "circuit.measure(0)") \o << NL >>
    \o Ln(4, "return circuit") \o << NL >> \o Spaces(4)

build_pauli_x_doc ==
    << "def build():", NL >> \o Ln(4, "circuit = Circuit()") \o << NL >>
    \o Ln(4, "circuit.x(0)") \o << NL >>
    \o Ln(4, "circuit.measure(0)") \o << NL >>
    \o Ln(4, "return circuit") \o << NL >> \o Spaces(4)

build_cnot_doc ==
    << "def build():", NL >> \o Ln(4, "circuit = Circuit()") \o << NL >>
    \o Ln(4, "circuit.cnot(0, 1)") \o << NL >>
    \o Ln(4, "circuit.measure(0)") \o << NL >>
    \o Ln(4, "circuit.measure(1)") \o << NL >>
    \o Ln(4, "return circuit") \o << NL >> \o Spaces(4)

\* list(LESSONS.keys()), in insertion order
LessonNames ==
    << "Measurement Gate (M)", "Hadamard Gate (H)", "Pauli-X Gate (X)", "CNOT Gate" >>

\* LESSONS[name]["builder"]: its docstring and the circuit its body builds
LESSONS ==
    [ name \in { LessonNames[i] : i \in DOMAIN LessonNames } |->
        CASE name = "Measurement Gate (M)" ->
               [ doc |-> build_measure_doc, builds |-> "Circuit[measure(0)]" ]
          [] name = "Hadamard Gate (H)" ->
               [ doc |-> build_hadamard_doc, builds |-> "Circuit[h(0) measure(0)]" ]
          [] name = "Pauli-X Gate (X)" ->
               [ doc |-> build_pauli_x_doc, builds |-> "Circuit[x(0) measure(0)]" ]
          [] name = "CNOT Gate" ->
               [ doc |-> build_cnot_doc,
                 builds |-> "Circuit[cnot(0,1) measure(0) measure(1)]" ] ]

-----------------------------------------------------------------------------
(* Populate button: lines 149-153                                          *)

IndentUnit == << SP, SP, SP, SP >>

\* slip: the comprehension runs over lines instead of lines[1:]
body_AllLines(lines) == [i \in 1..Len(lines) |-> IndentUnit \o lines[i]]

\* body = ["    " + ln for ln in lines[1:]]
body(lines) == [i \in 1..(Len(lines) - 1) |-> IndentUnit \o lines[i + 1]]

\* new st.session_state.editor_code after the button's block ran on `snippet`
populate(snippet, current) ==
    LET lines == SplitLines(snippet)
    IN  IF lines # << >>
        THEN LET func_def == lines[1]
             IN  Join(<< func_def >> \o body(lines))
        ELSE current

-----------------------------------------------------------------------------
(* Source texts a learner may type into the editor, and what Python makes  *)
(* of each when line 170 executes it and line 171 calls build              *)

SrcSyntaxError == << "def build(:" >>
SrcNoBuild == << "circuit = Circuit()" >>
SrcReturn5 == << "def build():", NL >> \o Ln(4, "return 5")
SrcOneArg == << "def build(n):", NL >> \o Ln(4, "return Circuit()")
SrcRaises == << "def build():", NL >> \o Ln(4, "raise ValueError('boom')")
SrcExit == << "def build():", NL >> \o Ln(4, "raise SystemExit('bye')")
SrcListdir ==
    << "import os", NL, "def build():", NL >> \o Ln(4, "os.listdir('.')")
    \o << NL >> \o Ln(4, "return Circuit()")
SrcUrlopen ==
    << "import urllib.request", NL, "def build():", NL >>
    \o Ln(4, "urllib.request.urlopen('http://example.org')")
    \o << NL >> \o Ln(4, "return Circuit()")
SrcSession ==
    << "import streamlit as st", NL, "st.session_state.started = False" >>

\* the editor text the Populate button produces for a lesson
Populated(name) == populate(getdoc(LESSONS[name].doc), Empty)

LessonSet == { LessonNames[i] : i \in DOMAIN LessonNames }

LearnerTexts ==
    { Empty, SrcSyntaxError, SrcNoBuild, SrcReturn5, SrcOneArg, SrcRaises,
      SrcExit, SrcListdir, SrcUrlopen, SrcSession }
    \cup { Populated(n) : n \in LessonSet }

\* One block of statements: the names it looks up, the capabilities it
\* uses once they resolve, how it ends.
Stmt(needs, caps, raises, msg, ret) ==
    [ needs |-> needs, caps |-> caps, raises |-> raises, msg |-> msg, ret |-> ret ]

NoStmt == Stmt({}, {}, "none", "", "None")

Program(syntax, top, binds, params, fn) ==
    [ syntax |-> syntax, top |-> top, binds |-> binds, params |-> params, fn |-> fn ]

\* compile + run-time behaviour of a source text under CPython
Parse(text) ==
    CASE text = Empty -> Program(TRUE, NoStmt, FALSE, 0, NoStmt)
      [] text = SrcSyntaxError -> Program(FALSE, NoStmt, FALSE, 0, NoStmt)
      [] text = SrcNoBuild ->
           Program(TRUE, Stmt({"Circuit"}, {}, "none", "", "None"), FALSE, 0, NoStmt)
      [] text = SrcReturn5 ->
           Program(TRUE, NoStmt, TRUE, 0, Stmt({}, {}, "none", "", "5"))
      [] text = SrcOneArg ->
           Program(TRUE, NoStmt, TRUE, 1, Stmt({"Circuit"}, {}, "none", "", "Circuit[]"))
      [] text = SrcRaises ->
           Program(TRUE, NoStmt, TRUE, 0,
                   Stmt({"ValueError"}, {}, "Exception", "boom", "None"))
      [] text = SrcExit ->
           Program(TRUE, NoStmt, TRUE, 0,
                   Stmt({"SystemExit"}, {}, "BaseException", "bye", "None"))
      [] text = SrcListdir ->
           Program(TRUE, Stmt({"__import__"}, {"import"}, "none", "", "None"), TRUE, 0,
                   Stmt({"Circuit"}, {"file"}, "none", "", "Circuit[]"))
      [] text = SrcUrlopen ->
           Program(TRUE, Stmt({"__import__"}, {"import"}, "none", "", "None"), TRUE, 0,
                   Stmt({"Circuit"}, {"network"}, "none", "", "Circuit[]"))
      [] text = SrcSession ->
           Program(TRUE, Stmt({"__import__"}, {"import", "session"}, "none", "", "None"),
                   FALSE, 0, NoStmt)
      [] \E n \in LessonSet : text = Populated(n) ->
           LET n == CHOOSE m \in LessonSet : text = Populated(m)
           IN  Program(TRUE, NoStmt, TRUE, 0,
                       Stmt({"Circuit"}, {}, "none", "", LESSONS[n].builds))
      [] OTHER -> Program(FALSE, NoStmt, FALSE, 0, NoStmt)

\* names of the builtins module the texts above look up
Builtins == { "__import__", "open", "ValueError", "SystemExit" }

\* exec(user_code, exec_env): a globals dict without "__builtins__" gets a
\* reference to the builtins module inserted under that key
ExecGlobals(env) ==
    IF "__builtins__" \in env THEN env ELSE env \cup { "__builtins__" }

\* name lookup from code running in `env`: globals, then builtins
Resolves(needs, env) ==
    needs \subseteq (env \cup (IF "__builtins__" \in env THEN Builtins ELSE {}))

IsCircuit(v) == v \notin { "none", "None", "5" }

-----------------------------------------------------------------------------
(* Exceptions and the events of one script execution                       *)

Exc(cls, msg) == [ cls |-> cls, msg |-> msg ]
NoExc == Exc("none", "")

\* except Exception as e (line 179)
Caught(e) == e.cls = "Exception"

Ev(ev, dev, val, n, ok) == [ ev |-> ev, dev |-> dev, val |-> val, shots |-> n, ok |-> ok ]

NoPre == [ started |-> FALSE, editor_code |-> Empty, user_code |-> Empty ]

\* options of st.radio("Run on:", ...), each split at whitespace
BackendOptions == << << "rocket", "Simulator" >>, << "atom", "IonQ", "QPU" >> >>

\* backend.startswith(<rocket>)
IsSimulator(b) == b[1] = "rocket"

DeviceArn == "arn:aws:braket:us-west-2::device/qpu/ionq/H1"

ShotsMin == 100
ShotsMax == 5000
ShotsDefault == 1000

\* values a learner may try to give the slider
ShotInputs == { 0, 99, 100, 1000, 5000, 5001 }

-----------------------------------------------------------------------------
(* Script executions                                                       *)

Idle == pc = "idle"

\* what a new script execution starts from: the previous execution's output
\* is replaced, the handler's locals do not exist yet
FreshLocals ==
    /\ log' = << >>
    /\ outcome' = "none"
    /\ circuit' = "none"
    /\ device' = "none"
    /\ exc' = NoExc
    /\ exec_env' = {}
    /\ exercised' = {}

\* a script execution in which the run button reports no click
Fresh == FreshLocals /\ pre' = NoPre

\* st.text_area(label, value=value, height=200) with no key (lines 156-160):
\* the widget on screen is kept, with the learner's text, while `value` is the
\* one it was created with; another `value` makes a new widget showing it
text_area(value) ==
    IF value = widget_value
    THEN [ value |-> widget_value, text |-> user_code ]
    ELSE [ value |-> value, text |-> value ]

Init ==
    /\ started = FALSE
    /\ lesson = LessonNames[1]
    /\ default_code = Empty
    /\ editor_code = Empty
    /\ widget_value = Empty
    /\ user_code = Empty
    /\ backend = BackendOptions[1]
    /\ shots = ShotsDefault
    /\ pc = "idle"
    /\ exec_env = {}
    /\ circuit = "none"
    /\ device = "none"
    /\ exc = NoExc
    /\ log = << >>
    /\ outcome = "none"
    /\ exercised = {}
    /\ last = "none"
    /\ pre = NoPre

\* landing page button (lines 123-125), then the first tutorial page: every
\* widget is new and shows its default
begin_qquest ==
    /\ Idle /\ ~started
    /\ started' = TRUE
    /\ lesson' = LessonNames[1]
    /\ default_code' = getdoc(LESSONS[LessonNames[1]].doc)
    /\ widget_value' = editor_code
    /\ user_code' = editor_code
    /\ backend' = BackendOptions[1]
    /\ shots' = ShotsDefault
    /\ last' = "begin"
    /\ Fresh
    /\ UNCHANGED << editor_code, pc >>

\* st.selectbox (lines 132-141)
SelectLesson ==
    /\ Idle /\ started
    /\ \E name \in LessonSet \ { lesson } :
         /\ lesson' = name
         /\ default_code' = getdoc(LESSONS[name].doc)
    /\ last' = "select"
    /\ Fresh
    /\ UNCHANGED << started, editor_code, widget_value, user_code, backend, shots, pc >>

\* "Populate editor with example code" (lines 148-160)
Populate ==
    /\ Idle /\ started
    /\ editor_code' = populate(default_code, editor_code)
    /\ LET w == text_area(editor_code')
       IN  widget_value' = w.value /\ user_code' = w.text
    /\ last' = "populate"
    /\ Fresh
    /\ UNCHANGED << started, lesson, default_code, backend, shots, pc >>

\* the learner types into the text area (lines 156-160)
Edit ==
    /\ Idle /\ started
    /\ \E t \in LearnerTexts \ { user_code } : user_code' = t
    /\ last' = "edit"
    /\ Fresh
    /\ UNCHANGED << started, lesson, default_code, editor_code, widget_value,
                    backend, shots, pc >>

\* st.radio (line 163)
SelectBackend ==
    /\ Idle /\ started
    /\ \E i \in DOMAIN BackendOptions :
         BackendOptions[i] # backend /\ backend' = BackendOptions[i]
    /\ last' = "radio"
    /\ Fresh
    /\ UNCHANGED << started, lesson, default_code, editor_code, widget_value,
                    user_code, shots, pc >>

\* slip: a numeric input without the slider's range
SetShots_Unchecked ==
    /\ Idle /\ started
    /\ \E v \in ShotInputs \ { shots } : shots' = v
    /\ last' = "slider"
    /\ Fresh
    /\ UNCHANGED << started, lesson, default_code, editor_code, widget_value,
                    user_code, backend, pc >>

\* st.slider("Shots:", 100, 5000, 1000) (line 164)
SetShots ==
    /\ Idle /\ started
    /\ \E v \in ShotInputs \ { shots } :
         ShotsMin <= v /\ v <= ShotsMax /\ shots' = v
    /\ last' = "slider"
    /\ Fresh
    /\ UNCHANGED << started, lesson, default_code, editor_code, widget_value,
                    user_code, backend, pc >>

-----------------------------------------------------------------------------
(* "Run Circuit" handler (lines 167-180), one step per statement           *)

Session == << started, lesson, default_code, editor_code, widget_value, user_code,
              backend, shots >>

Raise(e) == exc' = e /\ pc' = "except"

\* line 167: the button reports a click, the try block is entered
RunClick ==
    /\ Idle /\ started
    /\ pc' = "exec"
    /\ last' = "run"
    /\ FreshLocals
    /\ pre' = [ started |-> started, editor_code |-> editor_code,
                user_code |-> user_code ]
    /\ UNCHANGED Session

\* lines 169-170
RunExec ==
    /\ pc = "exec"
    /\ LET p   == Parse(user_code)
           env == ExecGlobals({ "Circuit" })
       IN  IF ~p.syntax
           THEN /\ Raise(Exc("Exception", "invalid syntax"))
                /\ exec_env' = env
                /\ UNCHANGED << exercised, started >>
           ELSE IF ~Resolves(p.top.needs, env)
           THEN /\ Raise(Exc("Exception", "name is not defined"))
                /\ exec_env' = env
                /\ UNCHANGED << exercised, started >>
           ELSE /\ exercised' = exercised \cup p.top.caps
                /\ started' = IF "session" \in p.top.caps THEN FALSE ELSE started
                /\ exec_env' = IF p.binds THEN env \cup { "build" } ELSE env
                /\ IF p.top.raises # "none"
                   THEN Raise(Exc(p.top.raises, p.top.msg))
                   ELSE pc' = "build" /\ exc' = exc
    /\ UNCHANGED << lesson, default_code, editor_code, widget_value, user_code,
                    backend, shots, circuit, device, log, outcome, last, pre >>

\* line 171
RunBuild ==
    /\ pc = "build"
    /\ LET p == Parse(user_code)
       IN  IF "build" \notin exec_env
           THEN Raise(Exc("Exception", "'build'")) /\ UNCHANGED << exercised, circuit >>
           ELSE IF p.params # 0
           THEN /\ Raise(Exc("Exception", "build() missing required positional argument"))
                /\ UNCHANGED << exercised, circuit >>
           ELSE IF ~Resolves(p.fn.needs, exec_env)
           THEN /\ Raise(Exc("Exception", "name is not defined"))
                /\ UNCHANGED << exercised, circuit >>
           ELSE /\ exercised' = exercised \cup p.fn.caps
                /\ IF p.fn.raises # "none"
                   THEN Raise(Exc(p.fn.raises, p.fn.msg)) /\ circuit' = circuit
                   ELSE circuit' = p.fn.ret /\ pc' = "text" /\ exc' = exc
    /\ UNCHANGED << Session, exec_env, device, log, outcome, last, pre >>

\* slip: the preview is left out
RunText_Skipped ==
    /\ pc = "text"
    /\ pc' = "device"
    /\ UNCHANGED << Session, exec_env, circuit, device, exc, log, outcome, exercised,
                    last, pre >>

\* line 173
RunText ==
    /\ pc = "text"
    /\ log' = Append(log, Ev("text", "", circuit, 0, TRUE))
    /\ pc' = "device"
    /\ UNCHANGED << Session, exec_env, circuit, device, exc, outcome, exercised,
                    last, pre >>

\* slip: an unreachable AwsDevice is replaced by the simulator
RunDevice_Fallback ==
    /\ pc = "device"
    /\ IF IsSimulator(backend)
       THEN /\ device' = "LocalSimulator"
            /\ log' = Append(log, Ev("device", "LocalSimulator", "", 0, TRUE))
       ELSE \E ok \in BOOLEAN :
              IF ok
              THEN /\ device' = DeviceArn
                   /\ log' = Append(log, Ev("device", DeviceArn, "", 0, TRUE))
              ELSE /\ device' = "LocalSimulator"
                   /\ log' = Append(log, Ev("device", DeviceArn, "", 0, FALSE))
    /\ pc' = "run"
    /\ UNCHANGED << Session, exec_env, circuit, exc, outcome, exercised, last, pre >>

\* line 174: LocalSimulator() is built in process; AwsDevice(arn) asks the
\* service for the device and may raise
RunDevice ==
    /\ pc = "device"
    /\ IF IsSimulator(backend)
       THEN /\ device' = "LocalSimulator"
            /\ log' = Append(log, Ev("device", "LocalSimulator", "", 0, TRUE))
            /\ pc' = "run" /\ exc' = exc
       ELSE \E ok \in BOOLEAN :
              /\ log' = Append(log, Ev("device", DeviceArn, "", 0, ok))
              /\ IF ok
                 THEN device' = DeviceArn /\ pc' = "run" /\ exc' = exc
                 ELSE device' = device /\ Raise(Exc("Exception", "device unreachable"))
    /\ UNCHANGED << Session, exec_env, circuit, outcome, exercised, last, pre >>

\* line 175: task = device.run(circuit, shots=shots)
RunSubmit ==
    /\ pc = "run"
    /\ \E ok \in BOOLEAN :
         /\ ok => IsCircuit(circuit)
         /\ log' = Append(log, Ev("run", device, circuit, shots, ok))
         /\ IF ok
            THEN pc' = "result" /\ exc' = exc
            ELSE Raise(Exc("Exception", "submission failed"))
    /\ UNCHANGED << Session, exec_env, circuit, device, outcome, exercised, last, pre >>

\* slip: a failed retrieval is ignored and the results are shown anyway
RunResult_Swallow ==
    /\ pc = "result"
    /\ \E ok \in BOOLEAN : log' = Append(log, Ev("result", device, "", 0, ok))
    /\ pc' = "success"
    /\ UNCHANGED << Session, exec_env, circuit, device, exc, outcome, exercised,
                    last, pre >>

\* line 176: counts = task.result().measurement_counts
RunResult ==
    /\ pc = "result"
    /\ \E ok \in BOOLEAN :
         /\ log' = Append(log, Ev("result", device, "", 0, ok))
         /\ IF ok
            THEN pc' = "success" /\ exc' = exc
            ELSE Raise(Exc("Exception", "retrieval failed"))
    /\ UNCHANGED << Session, exec_env, circuit, device, outcome, exercised, last, pre >>

\* line 177: st.success(f"Results ({backend.split()[1]}):")
RunSuccess ==
    /\ pc = "success"
    /\ log' = Append(log, Ev("success", "", backend[2], 0, TRUE))
    /\ pc' = "chart"
    /\ UNCHANGED << Session, exec_env, circuit, device, exc, outcome, exercised,
                    last, pre >>

\* line 178: st.bar_chart(counts); the script execution ends
RunChart ==
    /\ pc = "chart"
    /\ log' = Append(log, Ev("bar_chart", "", "counts", 0, TRUE))
    /\ pc' = "idle"
    /\ outcome' = "Completed"
    /\ UNCHANGED << Session, exec_env, circuit, device, exc, exercised, last, pre >>

\* lines 179-180: an Exception is shown by st.error; anything else leaves the
\* try statement uncaught and the script execution ends with it
RunExcept ==
    /\ pc = "except"
    /\ IF Caught(exc)
       THEN /\ log' = Append(log, Ev("error", "", exc.msg, 0, TRUE))
            /\ outcome' = "Failed"
       ELSE /\ log' = log
            /\ outcome' = "Escaped"
    /\ pc' = "idle"
    /\ UNCHANGED << Session, exec_env, circuit, device, exc, exercised, last, pre >>

Next ==
    \/ begin_qquest
    \/ SelectLesson
    \/ Populate
    \/ Edit
    \/ SelectBackend
    \/ SetShots
    \/ RunClick
    \/ RunExec
    \/ RunBuild
    \/ RunText
    \/ RunDevice
    \/ RunSubmit
    \/ RunResult
    \/ RunSuccess
    \/ RunChart
    \/ RunExcept

Spec == Init /\ [][Next]_vars

-----------------------------------------------------------------------------
(* Snippet transfer on arbitrary builder docstrings: the docstring is any  *)
(* text of at most MaxDocLen symbols (or one of the four lessons'), the    *)
(* editor starts empty or populated, as shown or edited by the learner     *)

MaxDocLen == 5

DocAlphabet == { NL, SP, "x" }

Docs ==
    UNION { [1..n -> DocAlphabet] : n \in 0..MaxDocLen }
    \cup { LESSONS[n].doc : n \in LessonSet }

PopInit ==
    /\ started = TRUE
    /\ lesson = LessonNames[1]
    /\ \E d \in Docs : default_code = getdoc(d)
    /\ editor_code \in { Empty, Populated(LessonNames[1]) }
    /\ widget_value = editor_code
    /\ user_code \in { editor_code, SrcReturn5 }
    /\ backend = BackendOptions[1]
    /\ shots = ShotsDefault
    /\ pc = "idle"
    /\ exec_env = {}
    /\ circuit = "none"
    /\ device = "none"
    /\ exc = NoExc
    /\ log = << >>
    /\ outcome = "none"
    /\ exercised = {}
    /\ last = "none"
    /\ pre = NoPre

PopNext ==
    \/ Populate
    \/ Edit

PopSpec == PopInit /\ [][PopNext]_vars

-----------------------------------------------------------------------------
(* Properties                                                              *)

Has(ev) == \E i \in DOMAIN log : log[i].ev = ev
Count(ev) == Cardinality({ i \in DOMAIN log : log[i].ev = ev })
BackendFailed ==
    \E i \in DOMAIN log : log[i].ev \in { "device", "run", "result" } /\ ~log[i].ok
RunEnded == pc = "idle" /\ outcome # "none"

\* C1: the success notice and the count histogram are written only after the
\* submit call and then the retrieve call both returned; once reaching the
\* device, submitting or retrieving raised, neither is ever written and the
\* run ends Failed with the error message as its last output.
Thm_C1 ==
    /\ \A i \in DOMAIN log :
         log[i].ev \in { "success", "bar_chart" } =>
           \E j \in 1..(i - 1) : \E k \in (j + 1)..(i - 1) :
              /\ log[j].ev = "run" /\ log[j].ok
              /\ log[k].ev = "result" /\ log[k].ok
    /\ BackendFailed =>
         /\ ~Has("success") /\ ~Has("bar_chart")
         /\ pc \in { "except", "idle" }
         /\ pc = "idle" => outcome = "Failed" /\ Last(log).ev = "error"
    /\ outcome = "Completed" => Has("success") /\ Has("bar_chart")

Wit_C1 ==
    /\ RunEnded /\ outcome = "Failed"
    /\ \E i \in DOMAIN log : log[i].ev = "result" /\ ~log[i].ok
    /\ Last(log).ev = "error"

\* C2 (as claimed): every run that does not complete ends with the failure
\* caught and shown as an error message, the session still in the tutorial
\* state and the editor holding the text it held when the run started.
Claim_C2 ==
    (RunEnded /\ outcome # "Completed") =>
       /\ outcome = "Failed" /\ Has("error")
       /\ started
       /\ user_code = pre.user_code
       /\ editor_code = pre.editor_code

UsesForbidden(text) ==
    LET p == Parse(text) IN (p.top.caps \cup p.fn.caps) # {}

\* C3 (as claimed): the text runs with the circuit constructor as its only
\* capability: no capability besides it is ever exercised, and a run of a text
\* that uses import, file, network or session access fails before the preview.
Claim_C3 ==
    /\ exercised = {}
    /\ (RunEnded /\ UsesForbidden(user_code)) => outcome = "Failed" /\ ~Has("text")

\* C4 (as claimed): when build returns a value that is not a circuit, no
\* preview of it is rendered and nothing is handed to a backend.
Claim_C4 ==
    (circuit # "none" /\ ~IsCircuit(circuit)) =>
       ~Has("text") /\ ~Has("device") /\ ~Has("run")

FailsBeforeDispatch(text) ==
    LET p == Parse(text)
    IN  \/ ~p.syntax
        \/ p.top.raises # "none"
        \/ ~p.binds
        \/ p.params # 0
        \/ p.fn.raises # "none"

\* what Python raises for a text that fails before dispatch
Underlying(text) ==
    LET p == Parse(text)
    IN  IF ~p.syntax THEN "invalid syntax"
        ELSE IF p.top.raises # "none" THEN p.top.msg
        ELSE IF ~p.binds THEN "'build'"
        ELSE IF p.params # 0 THEN "build() missing required positional argument"
        ELSE p.fn.msg

\* C5 (as claimed): a run of a text that fails during execution or invocation
\* shows an error message carrying the underlying failure, renders no preview
\* and selects or contacts no backend.
Claim_C5 ==
    (RunEnded /\ FailsBeforeDispatch(user_code)) =>
       /\ \E i \in DOMAIN log : log[i].ev = "error" /\ log[i].val = Underlying(user_code)
       /\ ~Has("text") /\ ~Has("device") /\ ~Has("run") /\ ~Has("result")

\* C6: a populate action on a snippet of N >= 1 lines leaves editor_code a
\* text of exactly N lines, line 0 the snippet's line 0 and every later line
\* the snippet's line behind exactly four spaces; on an empty snippet it
\* changes neither editor_code nor the text in the editor.
Thm_C6 ==
    [][ last' = "populate" =>
          LET lines == SplitLines(default_code)
              out   == SplitLines(editor_code')
          IN  IF lines = << >>
              THEN editor_code' = editor_code /\ user_code' = user_code
              ELSE /\ Len(out) = Len(lines)
                   /\ out[1] = lines[1]
                   /\ \A i \in 2..Len(lines) : out[i] = << SP, SP, SP, SP >> \o lines[i]
      ]_vars

Wit_C6 ==
    /\ last = "populate"
    /\ Len(SplitLines(default_code)) >= 2
    /\ Len(SplitLines(editor_code)) = Len(SplitLines(default_code))
    /\ user_code = editor_code

\* C7 (as claimed): after any lesson selections, edits and populate actions, a
\* populate action leaves the editor holding exactly the populated reference
\* snippet of the selected lesson.
Claim_C7 ==
    (Idle /\ last = "populate") =>
       /\ editor_code = Populated(lesson)
       /\ user_code = Populated(lesson)

\* C8: the slider value and the shot count of every device.run call lie in
\* [100, 5000].
Thm_C8 ==
    /\ shots >= 100 /\ shots <= 5000
    /\ \A i \in DOMAIN log :
         log[i].ev = "run" => log[i].shots >= 100 /\ log[i].shots <= 5000

Wit_C8 ==
    \E i \in DOMAIN log : log[i].ev = "run" /\ log[i].shots = 5000 /\ log[i].ok

\* C9: whenever build returned a value, its preview is written before a
\* device is chosen or the value submitted, and it is on the page when the run
\* ends, Completed or Failed.
Thm_C9 ==
    /\ \A i \in DOMAIN log :
         log[i].ev \in { "device", "run" } =>
           \E j \in 1..(i - 1) : log[j].ev = "text" /\ log[j].val = circuit
    /\ (circuit # "none" /\ pc \notin { "build", "text" }) => Has("text")
    /\ (RunEnded /\ circuit # "none") => log[1].ev = "text"

Wit_C9 ==
    /\ RunEnded /\ outcome = "Failed" /\ IsCircuit(circuit)
    /\ log[1].ev = "text"
    /\ \E i \in DOMAIN log : log[i].ev = "run" /\ ~log[i].ok

Selected == IF IsSimulator(backend) THEN "LocalSimulator" ELSE DeviceArn

\* C10: every device a run constructs, submits to or retrieves from is the
\* one the radio selects (the in-process simulator, or the device with the
\* fixed IonQ identifier), and a run makes at most one submit and one
\* retrieve call, also after a failure.
Thm_C10 ==
    /\ \A i \in DOMAIN log :
         log[i].ev \in { "device", "run", "result" } => log[i].dev = Selected
    /\ device \in { "none", Selected }
    /\ Count("device") <= 1 /\ Count("run") <= 1 /\ Count("result") <= 1

Wit_C10 ==
    /\ RunEnded /\ outcome = "Failed" /\ ~IsSimulator(backend)
    /\ \E i \in DOMAIN log : log[i].ev = "device" /\ ~log[i].ok
    /\ Count("device") = 1 /\ Count("run") = 0

=============================================================================
